---- MODULE Spec2Model ----
(***************************************************************************)
(* A model of TokenStore (token-store.ts): the sorted token list, the      *)
(* start-offset index map, the option normalisation and the cursor         *)
(* queries.  Array positions are 0-based as in the source; the element at  *)
(* source position i is allTokens[i + 1] here.  A range is the pair        *)
(* <<range[0], range[1]>> of the source, so range[1] here is the start     *)
(* offset and range[2] the end offset.                                     *)
(***************************************************************************)
EXTENDS Integers, Sequences, FiniteSets, TLC

\* Largest source offset of the modelled coordinate space (offsets 0..MaxOff).
MaxOff == 3
\* Largest number of tokens and comments handed to the constructor.
MaxLen == 3
\* Largest skip / count value passed in the options.
MaxNum == 1

Offsets == 0..MaxOff

\* range: [number, number] with start <= end
Ranges == {r \in Offsets \X Offsets : r[1] <= r[2]}

\* A token or comment: an object (id is its identity, the position it had in
\* the constructor's input), its range, and what params.isComment says of it.
SyntaxElement(i, r, c) == [id |-> i, range |-> r, comment |-> c]

\* The value a single-element query returns when nothing matches.
null == [id |-> 0, range |-> <<0, 0>>, comment |-> FALSE]

----------------------------------------------------------------------------
\* Array.prototype.sort((a, b) => a.range[0] - b.range[0]): a stable sort by
\* start offset, computed by stable insertion.
\* InsertSorted with the comparator reading range[1], the end offset.
RECURSIVE InsertSortedByEnd(_, _)
InsertSortedByEnd(sorted, t) ==
    IF sorted = <<>> THEN <<t>>
    ELSE IF sorted[Len(sorted)].range[2] - t.range[2] <= 0
         THEN Append(sorted, t)
         ELSE Append(InsertSortedByEnd(SubSeq(sorted, 1, Len(sorted) - 1), t),
                     sorted[Len(sorted)])

\* InsertSorted as an unstable sort would do it: an element goes before the
\* elements that compare equal to it.
RECURSIVE InsertSortedUnstable(_, _)
InsertSortedUnstable(sorted, t) ==
    IF sorted = <<>> THEN <<t>>
    ELSE IF sorted[Len(sorted)].range[1] - t.range[1] < 0
         THEN Append(sorted, t)
         ELSE Append(InsertSortedUnstable(SubSeq(sorted, 1, Len(sorted) - 1), t),
                     sorted[Len(sorted)])

RECURSIVE InsertSorted(_, _)
InsertSorted(sorted, t) ==
    IF sorted = <<>> THEN <<t>>
    ELSE IF sorted[Len(sorted)].range[1] - t.range[1] <= 0
         THEN Append(sorted, t)
         ELSE Append(InsertSorted(SubSeq(sorted, 1, Len(sorted) - 1), t),
                     sorted[Len(sorted)])

RECURSIVE SortByStart(_)
SortByStart(tokens) ==
    IF tokens = <<>> THEN <<>>
    ELSE InsertSorted(SortByStart(SubSeq(tokens, 1, Len(tokens) - 1)),
                      tokens[Len(tokens)])

\* The constructor's loop with a set only where the map has no entry yet.
RECURSIVE BuildIndexMapKeepFirst(_, _, _)
BuildIndexMapKeepFirst(tokens, i, map) ==
    IF i >= Len(tokens) THEN map
    ELSE LET token == tokens[i + 1]
         IN  IF token.range[1] < token.range[2] /\ token.range[1] \notin DOMAIN map
             THEN BuildIndexMapKeepFirst(tokens, i + 1,
                      [k \in (DOMAIN map) \cup {token.range[1]} |->
                          IF k = token.range[1] THEN i ELSE map[k]])
             ELSE BuildIndexMapKeepFirst(tokens, i + 1, map)

\* The constructor's loop without the test that leaves zero-width elements out.
RECURSIVE BuildIndexMapOfEveryElement(_, _, _)
BuildIndexMapOfEveryElement(tokens, i, map) ==
    IF i >= Len(tokens) THEN map
    ELSE LET token == tokens[i + 1]
         IN  BuildIndexMapOfEveryElement(tokens, i + 1,
                 [k \in (DOMAIN map) \cup {token.range[1]} |->
                     IF k = token.range[1] THEN i ELSE map[k]])

\* The constructor's loop over allTokens: Map.set on every element whose
\* range is not empty, a later set replacing an earlier one.
RECURSIVE BuildIndexMap(_, _, _)
BuildIndexMap(tokens, i, map) ==
    IF i >= Len(tokens) THEN map
    ELSE LET token == tokens[i + 1]
         IN  IF token.range[1] < token.range[2]
             THEN BuildIndexMap(tokens, i + 1,
                      [k \in (DOMAIN map) \cup {token.range[1]} |->
                          IF k = token.range[1] THEN i ELSE map[k]])
             ELSE BuildIndexMap(tokens, i + 1, map)

EmptyMap == [k \in {} |-> 0]

----------------------------------------------------------------------------
\* search(tokens, location): the binary search over start offsets.
\* searchLoop returning maxIndex in the place of minIndex when nothing is found.
RECURSIVE searchLoopReturnsMax(_, _, _, _)
searchLoopReturnsMax(tokens, location, minIndex, maxIndex) ==
    IF minIndex <= maxIndex
    THEN LET index == (minIndex + maxIndex) \div 2
             tokenStartLocation == tokens[index + 1].range[1]
         IN  IF tokenStartLocation < location
             THEN searchLoopReturnsMax(tokens, location, index + 1, maxIndex)
             ELSE IF tokenStartLocation > location
                  THEN searchLoopReturnsMax(tokens, location, minIndex, index - 1)
                  ELSE index
    ELSE maxIndex

RECURSIVE searchLoop(_, _, _, _)
searchLoop(tokens, location, minIndex, maxIndex) ==
    IF minIndex <= maxIndex
    THEN LET index == (minIndex + maxIndex) \div 2
             tokenStartLocation == tokens[index + 1].range[1]
         IN  IF tokenStartLocation < location
             THEN searchLoop(tokens, location, index + 1, maxIndex)
             ELSE IF tokenStartLocation > location
                  THEN searchLoop(tokens, location, minIndex, index - 1)
                  ELSE index
    ELSE minIndex

search(tokens, location) == searchLoop(tokens, location, 0, Len(tokens) - 1)

\* skipZeroWidthForward as an if in the place of the while: one step at most.
skipZeroWidthForwardOnce(tokens, index) ==
    IF index < Len(tokens) /\ tokens[index + 1].range[2] <= tokens[index + 1].range[1]
    THEN index + 1
    ELSE index

RECURSIVE skipZeroWidthForward(_, _)
skipZeroWidthForward(tokens, index) ==
    IF index < Len(tokens) /\ tokens[index + 1].range[2] <= tokens[index + 1].range[1]
    THEN skipZeroWidthForward(tokens, index + 1)
    ELSE index

\* skipZeroWidthBackward as an if in the place of the while: one step at most.
skipZeroWidthBackwardOnce(tokens, index) ==
    IF index >= 0 /\ tokens[index + 1].range[2] <= tokens[index + 1].range[1]
    THEN index - 1
    ELSE index

RECURSIVE skipZeroWidthBackward(_, _)
skipZeroWidthBackward(tokens, index) ==
    IF index >= 0 /\ tokens[index + 1].range[2] <= tokens[index + 1].range[1]
    THEN skipZeroWidthBackward(tokens, index - 1)
    ELSE index

\* getFirstIndex without the advance past zero-width elements.
getFirstIndexNoAdvance(tokens, indexMap, startLoc) ==
    IF startLoc \in DOMAIN indexMap THEN indexMap[startLoc]
    ELSE search(tokens, startLoc)

getFirstIndex(tokens, indexMap, startLoc) ==
    skipZeroWidthForward(tokens,
        IF startLoc \in DOMAIN indexMap THEN indexMap[startLoc]
        ELSE search(tokens, startLoc))

\* getLastIndex without the decrement of a position found in the map.
getLastIndexNoDecrement(tokens, indexMap, endLoc) ==
    skipZeroWidthBackward(tokens,
        IF endLoc \in DOMAIN indexMap THEN indexMap[endLoc]
        ELSE search(tokens, endLoc) - 1)

getLastIndex(tokens, indexMap, endLoc) ==
    skipZeroWidthBackward(tokens,
        IF endLoc \in DOMAIN indexMap THEN indexMap[endLoc] - 1
        ELSE search(tokens, endLoc) - 1)

----------------------------------------------------------------------------
\* The predicates a caller passes as a filter (TokenFilter): "odd" accepts the
\* elements, tokens and comments alike, that stood at an odd position of the
\* constructor's input; "any" is () => true.
Filters == {"odd"}

callFilter(f, token) ==
    CASE f = "any" -> TRUE
      [] f = "odd" -> token.id % 2 = 1

\* ctx.isComment is params.isComment; ctx.isNotComment is its negation.
isComment(token) == token.comment
isNotComment(token) == ~isComment(token)

\* The options argument of a cursor method.  kind is what typeof tells:
\* "undefined", "number" (num is the number), "function" (filter is the
\* predicate) or "object" (includeComments; hasFilter and filter; hasNum and
\* num for the skip or count property).
Options(kind, includeComments, hasFilter, filter, hasNum, num) ==
    [kind |-> kind, includeComments |-> includeComments,
     hasFilter |-> hasFilter, filter |-> filter, hasNum |-> hasNum, num |-> num]

undefined == Options("undefined", FALSE, FALSE, "any", FALSE, 0)
NumberOption(n) == Options("number", FALSE, FALSE, "any", TRUE, n)
FunctionOption(f) == Options("function", FALSE, TRUE, f, FALSE, 0)
ObjectOption(inc, hasF, f, hasN, n) ==
    Options("object", inc, hasF, IF hasF THEN f ELSE "any", hasN, IF hasN THEN n ELSE 0)

\* A filter after normalisation: rejectComments is the ctx.isComment test
\* made before the base predicate runs; ctx.isNotComment is that test with
\* nothing after it, () => true is no test and base "any".
NormFilter(rejectComments, base) == [rejectComments |-> rejectComments, base |-> base]

\* filterAccepts without the ctx.isComment test in front of the base predicate.
filterAcceptsNoCommentTest(filter, token) == callFilter(filter.base, token)

filterAccepts(filter, token) ==
    IF filter.rejectComments /\ isComment(token) THEN FALSE
    ELSE callFilter(filter.base, token)

\* normalizeSkipOptions with a bare number taken for no skip.
normalizeSkipOptionsNumberIgnored(options) ==
    IF options.kind = "number"
    THEN [filter |-> NormFilter(TRUE, "any"), skip |-> 0]
    ELSE IF options.kind = "function"
    THEN [filter |-> NormFilter(TRUE, options.filter), skip |-> 0]
    ELSE [filter |-> IF options.kind = "object" /\ options.includeComments
                     THEN IF options.hasFilter
                          THEN NormFilter(FALSE, options.filter)
                          ELSE NormFilter(FALSE, "any")
                     ELSE IF options.kind = "object" /\ options.hasFilter
                          THEN NormFilter(TRUE, options.filter)
                          ELSE NormFilter(TRUE, "any"),
          skip |-> IF options.kind = "object" /\ options.hasNum
                   THEN options.num ELSE 0]

normalizeSkipOptions(options) ==
    IF options.kind = "number"
    THEN [filter |-> NormFilter(TRUE, "any"), skip |-> options.num]
    ELSE IF options.kind = "function"
    THEN [filter |-> NormFilter(TRUE, options.filter), skip |-> 0]
    ELSE [filter |-> IF options.kind = "object" /\ options.includeComments
                     THEN IF options.hasFilter
                          THEN NormFilter(FALSE, options.filter)
                          ELSE NormFilter(FALSE, "any")
                     ELSE IF options.kind = "object" /\ options.hasFilter
                          THEN NormFilter(TRUE, options.filter)
                          ELSE NormFilter(TRUE, "any"),
          skip |-> IF options.kind = "object" /\ options.hasNum
                   THEN options.num ELSE 0]

\* normalizeCountOptions with the includeComments branch missing.
normalizeCountOptionsNoInclude(options) ==
    IF options.kind = "number"
    THEN [filter |-> NormFilter(TRUE, "any"), count |-> options.num]
    ELSE IF options.kind = "function"
    THEN [filter |-> NormFilter(TRUE, options.filter), count |-> 0]
    ELSE [filter |-> IF options.kind = "object" /\ options.hasFilter
                     THEN NormFilter(TRUE, options.filter)
                     ELSE NormFilter(TRUE, "any"),
          count |-> IF options.kind = "object" /\ options.hasNum
                    THEN options.num ELSE 0]

normalizeCountOptions(options) ==
    IF options.kind = "number"
    THEN [filter |-> NormFilter(TRUE, "any"), count |-> options.num]
    ELSE IF options.kind = "function"
    THEN [filter |-> NormFilter(TRUE, options.filter), count |-> 0]
    ELSE [filter |-> IF options.kind = "object" /\ options.includeComments
                     THEN IF options.hasFilter
                          THEN NormFilter(FALSE, options.filter)
                          ELSE NormFilter(FALSE, "any")
                     ELSE IF options.kind = "object" /\ options.hasFilter
                          THEN NormFilter(TRUE, options.filter)
                          ELSE NormFilter(TRUE, "any"),
          count |-> IF options.kind = "object" /\ options.hasNum
                    THEN options.num ELSE 0]

----------------------------------------------------------------------------
\* The four scanning loops of the cursor methods, over positions i of tokens.

\* firstLoop with the skip test off by one: skipped <= skip.
RECURSIVE firstLoopSkipsOneMore(_, _, _, _, _, _)
firstLoopSkipsOneMore(tokens, filter, skip, i, endIndex, skipped) ==
    IF i <= endIndex /\ i < Len(tokens)
    THEN LET token == tokens[i + 1]
         IN  IF ~filterAccepts(filter, token)
             THEN firstLoopSkipsOneMore(tokens, filter, skip, i + 1, endIndex, skipped)
             ELSE IF skipped <= skip
                  THEN firstLoopSkipsOneMore(tokens, filter, skip, i + 1, endIndex, skipped + 1)
                  ELSE token
    ELSE null

\* for (i = startIndex; i <= endIndex && i < length; i++) with skip
RECURSIVE firstLoop(_, _, _, _, _, _)
firstLoop(tokens, filter, skip, i, endIndex, skipped) ==
    IF i <= endIndex /\ i < Len(tokens)
    THEN LET token == tokens[i + 1]
         IN  IF ~filterAccepts(filter, token)
             THEN firstLoop(tokens, filter, skip, i + 1, endIndex, skipped)
             ELSE IF skipped < skip
                  THEN firstLoop(tokens, filter, skip, i + 1, endIndex, skipped + 1)
                  ELSE token
    ELSE null

\* for (i = endIndex; i >= startIndex && i >= 0; i--) with skip
\* lastLoop with the skip test off by one: skipped <= skip.
RECURSIVE lastLoopSkipsOneMore(_, _, _, _, _, _)
lastLoopSkipsOneMore(tokens, filter, skip, i, startIndex, skipped) ==
    IF i >= startIndex /\ i >= 0
    THEN LET token == tokens[i + 1]
         IN  IF ~filterAccepts(filter, token)
             THEN lastLoopSkipsOneMore(tokens, filter, skip, i - 1, startIndex, skipped)
             ELSE IF skipped <= skip
                  THEN lastLoopSkipsOneMore(tokens, filter, skip, i - 1, startIndex, skipped + 1)
                  ELSE token
    ELSE null

RECURSIVE lastLoop(_, _, _, _, _, _)
lastLoop(tokens, filter, skip, i, startIndex, skipped) ==
    IF i >= startIndex /\ i >= 0
    THEN LET token == tokens[i + 1]
         IN  IF ~filterAccepts(filter, token)
             THEN lastLoop(tokens, filter, skip, i - 1, startIndex, skipped)
             ELSE IF skipped < skip
                  THEN lastLoop(tokens, filter, skip, i - 1, startIndex, skipped + 1)
                  ELSE token
    ELSE null

\* firstsLoop with the count test off by one: result.length > count.
RECURSIVE firstsLoopOneMore(_, _, _, _, _, _)
firstsLoopOneMore(tokens, filter, count, i, endIndex, result) ==
    IF i <= endIndex /\ i < Len(tokens)
    THEN LET token == tokens[i + 1]
         IN  IF ~filterAccepts(filter, token)
             THEN firstsLoopOneMore(tokens, filter, count, i + 1, endIndex, result)
             ELSE LET pushed == Append(result, token)
                  IN  IF count > 0 /\ Len(pushed) > count
                      THEN pushed
                      ELSE firstsLoopOneMore(tokens, filter, count, i + 1, endIndex, pushed)
    ELSE result

\* for (i = startIndex; i <= endIndex && i < length; i++) with push and count
RECURSIVE firstsLoop(_, _, _, _, _, _)
firstsLoop(tokens, filter, count, i, endIndex, result) ==
    IF i <= endIndex /\ i < Len(tokens)
    THEN LET token == tokens[i + 1]
         IN  IF ~filterAccepts(filter, token)
             THEN firstsLoop(tokens, filter, count, i + 1, endIndex, result)
             ELSE LET pushed == Append(result, token)
                  IN  IF count > 0 /\ Len(pushed) >= count
                      THEN pushed
                      ELSE firstsLoop(tokens, filter, count, i + 1, endIndex, pushed)
    ELSE result

\* lastsLoop with push in the place of unshift.
RECURSIVE lastsLoopPush(_, _, _, _, _, _)
lastsLoopPush(tokens, filter, count, i, startIndex, result) ==
    IF i >= startIndex /\ i >= 0
    THEN LET token == tokens[i + 1]
         IN  IF ~filterAccepts(filter, token)
             THEN lastsLoopPush(tokens, filter, count, i - 1, startIndex, result)
             ELSE LET pushed == Append(result, token)
                  IN  IF count > 0 /\ Len(pushed) >= count
                      THEN pushed
                      ELSE lastsLoopPush(tokens, filter, count, i - 1, startIndex, pushed)
    ELSE result

\* for (i = endIndex; i >= startIndex && i >= 0; i--) with unshift and count
RECURSIVE lastsLoop(_, _, _, _, _, _)
lastsLoop(tokens, filter, count, i, startIndex, result) ==
    IF i >= startIndex /\ i >= 0
    THEN LET token == tokens[i + 1]
         IN  IF ~filterAccepts(filter, token)
             THEN lastsLoop(tokens, filter, count, i - 1, startIndex, result)
             ELSE LET unshifted == <<token>> \o result
                  IN  IF count > 0 /\ Len(unshifted) >= count
                      THEN unshifted
                      ELSE lastsLoop(tokens, filter, count, i - 1, startIndex, unshifted)
    ELSE result

\* for (i = endIndex; i >= startIndex; i--) with skip (getLastTokenBetween)
RECURSIVE lastBetweenLoop(_, _, _, _, _, _)
lastBetweenLoop(tokens, filter, skip, i, startIndex, skipped) ==
    IF i >= startIndex
    THEN LET token == tokens[i + 1]
         IN  IF ~filterAccepts(filter, token)
             THEN lastBetweenLoop(tokens, filter, skip, i - 1, startIndex, skipped)
             ELSE IF skipped < skip
                  THEN lastBetweenLoop(tokens, filter, skip, i - 1, startIndex, skipped + 1)
                  ELSE token
    ELSE null

\* for (i = endIndex; i >= startIndex; i--) with unshift and count
\* (getLastTokensBetween)
RECURSIVE lastsBetweenLoop(_, _, _, _, _, _)
lastsBetweenLoop(tokens, filter, count, i, startIndex, result) ==
    IF i >= startIndex
    THEN LET token == tokens[i + 1]
         IN  IF ~filterAccepts(filter, token)
             THEN lastsBetweenLoop(tokens, filter, count, i - 1, startIndex, result)
             ELSE LET unshifted == <<token>> \o result
                  IN  IF count > 0 /\ Len(unshifted) >= count
                      THEN unshifted
                      ELSE lastsBetweenLoop(tokens, filter, count, i - 1, startIndex, unshifted)
    ELSE result

----------------------------------------------------------------------------
\* The store: this[PRIVATE], and the last call made on it with what it returned.
VARIABLES
    tokens,             \* params.tokens, the constructor's input
    allTokens,          \* the sorted list of tokens and comments
    tokenStartToIndex,  \* Map from start offset to position in allTokens
    cacheAllComments,   \* the memoised comment list, or NoCache
    called,             \* the last method called, with its arguments
    returned            \* what that call returned

vars == <<tokens, allTokens, tokenStartToIndex, cacheAllComments, called, returned>>
store == <<tokens, allTokens, tokenStartToIndex, cacheAllComments>>

\* cacheAllComments: null
NoCache == [set |-> FALSE, value |-> <<>>]

\* The cursor methods of the class, on the store's state.
getFirstToken(node, options) ==
    LET o == normalizeSkipOptions(options)
        startIndex == getFirstIndex(allTokens, tokenStartToIndex, node.range[1])
        endIndex == getLastIndex(allTokens, tokenStartToIndex, node.range[2])
    IN  firstLoop(allTokens, o.filter, o.skip, startIndex, endIndex, 0)

getFirstTokens(node, options) ==
    LET o == normalizeCountOptions(options)
        startIndex == getFirstIndex(allTokens, tokenStartToIndex, node.range[1])
        endIndex == getLastIndex(allTokens, tokenStartToIndex, node.range[2])
    IN  firstsLoop(allTokens, o.filter, o.count, startIndex, endIndex, <<>>)

getLastToken(node, options) ==
    LET o == normalizeSkipOptions(options)
        startIndex == getFirstIndex(allTokens, tokenStartToIndex, node.range[1])
        endIndex == getLastIndex(allTokens, tokenStartToIndex, node.range[2])
    IN  lastLoop(allTokens, o.filter, o.skip, endIndex, startIndex, 0)

getLastTokens(node, options) ==
    LET o == normalizeCountOptions(options)
        startIndex == getFirstIndex(allTokens, tokenStartToIndex, node.range[1])
        endIndex == getLastIndex(allTokens, tokenStartToIndex, node.range[2])
    IN  lastsLoop(allTokens, o.filter, o.count, endIndex, startIndex, <<>>)

getTokenAfter(node, options) ==
    LET o == normalizeSkipOptions(options)
        startIndex == getFirstIndex(allTokens, tokenStartToIndex, node.range[2])
    IN  firstLoop(allTokens, o.filter, o.skip, startIndex, Len(allTokens) - 1, 0)

getTokensAfter(node, options) ==
    LET o == normalizeCountOptions(options)
        startIndex == getFirstIndex(allTokens, tokenStartToIndex, node.range[2])
    IN  firstsLoop(allTokens, o.filter, o.count, startIndex, Len(allTokens) - 1, <<>>)

\* getTokenBefore reading the node's end offset, node.range[1] of the source.
getTokenBeforeEnd(node, options) ==
    LET o == normalizeSkipOptions(options)
        endIndex == getLastIndex(allTokens, tokenStartToIndex, node.range[2])
    IN  lastLoop(allTokens, o.filter, o.skip, endIndex, 0, 0)

getTokenBefore(node, options) ==
    LET o == normalizeSkipOptions(options)
        endIndex == getLastIndex(allTokens, tokenStartToIndex, node.range[1])
    IN  lastLoop(allTokens, o.filter, o.skip, endIndex, 0, 0)

getTokensBefore(node, options) ==
    LET o == normalizeCountOptions(options)
        endIndex == getLastIndex(allTokens, tokenStartToIndex, node.range[1])
    IN  lastsLoop(allTokens, o.filter, o.count, endIndex, 0, <<>>)

getFirstTokenBetween(left, right, options) ==
    LET o == normalizeSkipOptions(options)
        startIndex == getFirstIndex(allTokens, tokenStartToIndex, left.range[2])
        endIndex == getLastIndex(allTokens, tokenStartToIndex, right.range[1])
    IN  firstLoop(allTokens, o.filter, o.skip, startIndex, endIndex, 0)

getFirstTokensBetween(left, right, options) ==
    LET o == normalizeCountOptions(options)
        startIndex == getFirstIndex(allTokens, tokenStartToIndex, left.range[2])
        endIndex == getLastIndex(allTokens, tokenStartToIndex, right.range[1])
    IN  firstsLoop(allTokens, o.filter, o.count, startIndex, endIndex, <<>>)

getLastTokenBetween(left, right, options) ==
    LET o == normalizeSkipOptions(options)
        startIndex == getFirstIndex(allTokens, tokenStartToIndex, left.range[2])
        endIndex == getLastIndex(allTokens, tokenStartToIndex, right.range[1])
    IN  lastBetweenLoop(allTokens, o.filter, o.skip, endIndex, startIndex, 0)

\* getLastTokensBetween with the window closed at the end of right.
getLastTokensBetweenToEndOfRight(left, right, options) ==
    LET o == normalizeCountOptions(options)
        startIndex == getFirstIndex(allTokens, tokenStartToIndex, left.range[2])
        endIndex == getLastIndex(allTokens, tokenStartToIndex, right.range[2])
    IN  lastsBetweenLoop(allTokens, o.filter, o.count, endIndex, startIndex, <<>>)

getLastTokensBetween(left, right, options) ==
    LET o == normalizeCountOptions(options)
        startIndex == getFirstIndex(allTokens, tokenStartToIndex, left.range[2])
        endIndex == getLastIndex(allTokens, tokenStartToIndex, right.range[1])
    IN  lastsBetweenLoop(allTokens, o.filter, o.count, endIndex, startIndex, <<>>)

\* getTokens with the end of the window resolved from range[0].
getTokensToStart(node, options) ==
    LET o == normalizeCountOptions(options)
        startIndex == getFirstIndex(allTokens, tokenStartToIndex, node.range[1])
        endIndex == getLastIndex(allTokens, tokenStartToIndex, node.range[1])
    IN  firstsLoop(allTokens, o.filter, o.count, startIndex, endIndex, <<>>)

getTokens(node, options) ==
    LET o == normalizeCountOptions(options)
        startIndex == getFirstIndex(allTokens, tokenStartToIndex, node.range[1])
        endIndex == getLastIndex(allTokens, tokenStartToIndex, node.range[2])
    IN  firstsLoop(allTokens, o.filter, o.count, startIndex, endIndex, <<>>)

getTokensBetween(left, right, paddingOrOptions) ==
    LET o == normalizeCountOptions(paddingOrOptions)
        startIndex == getFirstIndex(allTokens, tokenStartToIndex, left.range[2])
        endIndex == getLastIndex(allTokens, tokenStartToIndex, right.range[1])
    IN  firstsLoop(allTokens, o.filter, o.count, startIndex, endIndex, <<>>)

\* for (const token of allTokens) if (ctx.isComment(token)) result.push(token)
collectComments(all) == SelectSeq(all, isComment)

\* commentsInsideLoop stopping one short: i < endIndex.
RECURSIVE commentsInsideLoopExclusive(_, _, _, _)
commentsInsideLoopExclusive(all, i, endIndex, result) ==
    IF i < endIndex /\ i < Len(all)
    THEN commentsInsideLoopExclusive(all, i + 1, endIndex,
                                     IF isComment(all[i + 1])
                                     THEN Append(result, all[i + 1]) ELSE result)
    ELSE result

\* for (i = startIndex; i <= endIndex && i < length; i++) pushing the comments
RECURSIVE commentsInsideLoop(_, _, _, _)
commentsInsideLoop(all, i, endIndex, result) ==
    IF i <= endIndex /\ i < Len(all)
    THEN commentsInsideLoop(all, i + 1, endIndex,
                            IF isComment(all[i + 1])
                            THEN Append(result, all[i + 1]) ELSE result)
    ELSE result

getCommentsInside(nodeOrToken) ==
    LET startIndex == getFirstIndex(allTokens, tokenStartToIndex, nodeOrToken.range[1])
        endIndex == getLastIndex(allTokens, tokenStartToIndex, nodeOrToken.range[2])
    IN  commentsInsideLoop(allTokens, startIndex, endIndex, <<>>)

\* commentsBeforeLoop without the break at a non-comment.
RECURSIVE commentsBeforeLoopNoBreak(_, _, _)
commentsBeforeLoopNoBreak(all, i, result) ==
    IF i >= 0
    THEN commentsBeforeLoopNoBreak(all, i - 1,
                                   IF isComment(all[i + 1])
                                   THEN <<all[i + 1]>> \o result ELSE result)
    ELSE result

\* for (i = endIndex; i >= 0; i--) unshifting comments, break at a non-comment
RECURSIVE commentsBeforeLoop(_, _, _)
commentsBeforeLoop(all, i, result) ==
    IF i >= 0 /\ isComment(all[i + 1])
    THEN commentsBeforeLoop(all, i - 1, <<all[i + 1]>> \o result)
    ELSE result

getCommentsBefore(nodeOrToken) ==
    LET endIndex == getLastIndex(allTokens, tokenStartToIndex, nodeOrToken.range[1])
    IN  commentsBeforeLoop(allTokens, endIndex, <<>>)

\* for (i = startIndex; i < length; i++) pushing comments, break at a non-comment
RECURSIVE commentsAfterLoop(_, _, _)
commentsAfterLoop(all, i, result) ==
    IF i < Len(all) /\ isComment(all[i + 1])
    THEN commentsAfterLoop(all, i + 1, Append(result, all[i + 1]))
    ELSE result

getCommentsAfter(nodeOrToken) ==
    LET startIndex == getFirstIndex(allTokens, tokenStartToIndex, nodeOrToken.range[2])
    IN  commentsAfterLoop(allTokens, startIndex, <<>>)

\* commentsExistLoop answering at the first element of the window.
commentsExistLoopFirstOnly(all, i, endIndex) ==
    IF i <= endIndex /\ i < Len(all) THEN isComment(all[i + 1]) ELSE FALSE

\* for (i = startIndex; i <= endIndex && i < length; i++) return true at a comment
RECURSIVE commentsExistLoop(_, _, _)
commentsExistLoop(all, i, endIndex) ==
    IF i <= endIndex /\ i < Len(all)
    THEN IF isComment(all[i + 1]) THEN TRUE
         ELSE commentsExistLoop(all, i + 1, endIndex)
    ELSE FALSE

commentsExistBetween(left, right) ==
    LET startIndex == getFirstIndex(allTokens, tokenStartToIndex, left.range[2])
        endIndex == getLastIndex(allTokens, tokenStartToIndex, right.range[1])
    IN  commentsExistLoop(allTokens, startIndex, endIndex)

\* spaceLoop passing over comments as if they were not there.
RECURSIVE spaceLoopPassesComments(_, _, _, _, _)
spaceLoopPassesComments(all, i, endIndex, prevEnd, rightStart) ==
    IF i <= endIndex /\ i < Len(all)
    THEN IF isComment(all[i + 1])
         THEN spaceLoopPassesComments(all, i + 1, endIndex, prevEnd, rightStart)
         ELSE IF prevEnd < all[i + 1].range[1] THEN TRUE
         ELSE spaceLoopPassesComments(all, i + 1, endIndex, all[i + 1].range[2],
                                      rightStart)
    ELSE prevEnd < rightStart

\* spaceLoop without the test after the loop: the last element is not
\* compared with right.
RECURSIVE spaceLoopNoFinalTest(_, _, _, _, _)
spaceLoopNoFinalTest(all, i, endIndex, prevEnd, rightStart) ==
    IF i <= endIndex /\ i < Len(all)
    THEN IF prevEnd < all[i + 1].range[1] THEN TRUE
         ELSE spaceLoopNoFinalTest(all, i + 1, endIndex, all[i + 1].range[2], rightStart)
    ELSE FALSE

\* The loop of isSpaceBetween: prevEnd is prev.range[1]; true at the first
\* gap, after the loop prev.range[1] < right.range[0].
RECURSIVE spaceLoop(_, _, _, _, _)
spaceLoop(all, i, endIndex, prevEnd, rightStart) ==
    IF i <= endIndex /\ i < Len(all)
    THEN IF prevEnd < all[i + 1].range[1] THEN TRUE
         ELSE spaceLoop(all, i + 1, endIndex, all[i + 1].range[2], rightStart)
    ELSE prevEnd < rightStart

\* isSpaceBetween with the early return answering true.
isSpaceBetweenEarlyTrue(left, right) ==
    IF left.range[2] >= right.range[1] THEN TRUE
    ELSE LET startIndex == getFirstIndex(allTokens, tokenStartToIndex, left.range[2])
             endIndex == getLastIndex(allTokens, tokenStartToIndex, right.range[1])
         IN  spaceLoop(allTokens, startIndex, endIndex, left.range[2], right.range[1])

isSpaceBetween(left, right) ==
    IF left.range[2] >= right.range[1] THEN FALSE
    ELSE LET startIndex == getFirstIndex(allTokens, tokenStartToIndex, left.range[2])
             endIndex == getLastIndex(allTokens, tokenStartToIndex, right.range[1])
         IN  spaceLoop(allTokens, startIndex, endIndex, left.range[2], right.range[1])

----------------------------------------------------------------------------
\* The arguments the calls are made with.

\* A node, token or comment given to a query: only its range is read.
Nodes == [range : Ranges]

\* getTokenAfter and the like read node.range[1] only, getTokenBefore and the
\* like node.range[0] only, the Between queries left.range[1] and
\* right.range[0] only: these nodes give those offsets every value.
NodesByEnd == {[range |-> <<0, e>>] : e \in Offsets}
NodesByStart == {[range |-> <<b, MaxOff>>] : b \in Offsets}

SkipOptions ==
    {undefined}
    \cup {NumberOption(n) : n \in 0..MaxNum}
    \cup {FunctionOption(f) : f \in Filters}
    \cup {ObjectOption(inc, TRUE, f, TRUE, n) :
            inc \in BOOLEAN, f \in Filters, n \in 0..MaxNum}
    \cup {ObjectOption(inc, TRUE, f, FALSE, 0) : inc \in BOOLEAN, f \in Filters}
    \cup {ObjectOption(inc, FALSE, "any", TRUE, n) : inc \in BOOLEAN, n \in 0..MaxNum}
    \cup {ObjectOption(inc, FALSE, "any", FALSE, 0) : inc \in BOOLEAN}

\* The options that name a filter setting and no skip.
FilterOptions ==
    {undefined}
    \cup {FunctionOption(f) : f \in Filters}
    \cup {ObjectOption(inc, TRUE, f, FALSE, 0) : inc \in BOOLEAN, f \in Filters}
    \cup {ObjectOption(inc, FALSE, "any", FALSE, 0) : inc \in BOOLEAN}

\* count may be zero or negative, both meaning no limit
CountOptions ==
    {undefined}
    \cup {NumberOption(n) : n \in -1..MaxNum}
    \cup {FunctionOption(f) : f \in Filters}
    \cup {ObjectOption(inc, TRUE, f, TRUE, n) :
            inc \in BOOLEAN, f \in Filters, n \in -1..MaxNum}
    \cup {ObjectOption(inc, TRUE, f, FALSE, 0) : inc \in BOOLEAN, f \in Filters}
    \cup {ObjectOption(inc, FALSE, "any", TRUE, n) : inc \in BOOLEAN, n \in -1..MaxNum}
    \cup {ObjectOption(inc, FALSE, "any", FALSE, 0) : inc \in BOOLEAN}

\* The token lists a caller may construct a store from, n elements long: any
\* order, any ranges, any of them comments.
Inputs(n) ==
    {[i \in 1..n |-> SyntaxElement(i, f[i][1], f[i][2])] :
        f \in [1..n -> Ranges \X BOOLEAN]}

NoCall == [method |-> "constructor"]
Call1(method, node, options) ==
    [method |-> method, node |-> node, options |-> options]
Call2(method, left, right, options) ==
    [method |-> method, left |-> left, right |-> right, options |-> options]

----------------------------------------------------------------------------
\* new TokenStore({tokens, isComment}): the state the constructor leaves.
Constructed(input) ==
    /\ tokens = input
    /\ allTokens = SortByStart(input)
    /\ tokenStartToIndex = BuildIndexMap(SortByStart(input), 0, EmptyMap)
    /\ cacheAllComments = NoCache
    /\ called = NoCall
    /\ returned = <<>>

\* A store constructed from any input.
Init ==
    \E n \in 0..MaxLen : \E input \in Inputs(n) : Constructed(input)

\* A store constructed from an input given in the order of the start offsets.
\* The constructor builds the same allTokens and tokenStartToIndex from an
\* input and from that input sorted, so these are all the stores the queries
\* can find, each once.
InOrder(input) ==
    \A i \in 2..Len(input) : input[i - 1].range[1] <= input[i].range[1]

InitInOrder ==
    \E n \in 0..MaxLen : \E input \in Inputs(n) :
        InOrder(input) /\ Constructed(input)

\* The caller has a freshly constructed store and has put no query to it yet.
Fresh == called = NoCall

GetAllTokens ==
    /\ Fresh
    /\ called' = [method |-> "getAllTokens"]
    /\ returned' = allTokens
    /\ UNCHANGED store

GetFirstToken ==
    /\ Fresh
    /\ \E node \in Nodes, options \in SkipOptions :
           /\ called' = Call1("getFirstToken", node, options)
           /\ returned' = getFirstToken(node, options)
           /\ UNCHANGED store

GetFirstTokens ==
    /\ Fresh
    /\ \E node \in Nodes, options \in CountOptions :
           /\ called' = Call1("getFirstTokens", node, options)
           /\ returned' = getFirstTokens(node, options)
           /\ UNCHANGED store

GetLastToken ==
    /\ Fresh
    /\ \E node \in Nodes, options \in SkipOptions :
           /\ called' = Call1("getLastToken", node, options)
           /\ returned' = getLastToken(node, options)
           /\ UNCHANGED store

GetLastTokens ==
    /\ Fresh
    /\ \E node \in Nodes, options \in CountOptions :
           /\ called' = Call1("getLastTokens", node, options)
           /\ returned' = getLastTokens(node, options)
           /\ UNCHANGED store

GetTokenAfter ==
    /\ Fresh
    /\ \E node \in NodesByEnd, options \in SkipOptions :
           /\ called' = Call1("getTokenAfter", node, options)
           /\ returned' = getTokenAfter(node, options)
           /\ UNCHANGED store

GetTokensAfter ==
    /\ Fresh
    /\ \E node \in NodesByEnd, options \in CountOptions :
           /\ called' = Call1("getTokensAfter", node, options)
           /\ returned' = getTokensAfter(node, options)
           /\ UNCHANGED store

GetTokenBefore ==
    /\ Fresh
    /\ \E node \in NodesByStart, options \in SkipOptions :
           /\ called' = Call1("getTokenBefore", node, options)
           /\ returned' = getTokenBefore(node, options)
           /\ UNCHANGED store

GetTokensBefore ==
    /\ Fresh
    /\ \E node \in NodesByStart, options \in CountOptions :
           /\ called' = Call1("getTokensBefore", node, options)
           /\ returned' = getTokensBefore(node, options)
           /\ UNCHANGED store

GetTokensWith(optionSet) ==
    /\ Fresh
    /\ \E node \in Nodes, options \in optionSet :
           /\ called' = Call1("getTokens", node, options)
           /\ returned' = getTokens(node, options)
           /\ UNCHANGED store

GetTokens == GetTokensWith(CountOptions)

\* getTokens(node): the call with no options argument
GetTokensOfNode == GetTokensWith({undefined})

\* {includeComments: true}
IncludeComments == ObjectOption(TRUE, FALSE, "any", FALSE, 0)

\* getTokens(node, {includeComments: true})
GetTokensIncludingComments == GetTokensWith({IncludeComments})

GetFirstTokenBetween ==
    /\ Fresh
    /\ \E left \in NodesByEnd, right \in NodesByStart, options \in SkipOptions :
           /\ called' = Call2("getFirstTokenBetween", left, right, options)
           /\ returned' = getFirstTokenBetween(left, right, options)
           /\ UNCHANGED store

GetFirstTokensBetween ==
    /\ Fresh
    /\ \E left \in NodesByEnd, right \in NodesByStart, options \in CountOptions :
           /\ called' = Call2("getFirstTokensBetween", left, right, options)
           /\ returned' = getFirstTokensBetween(left, right, options)
           /\ UNCHANGED store

GetLastTokenBetween ==
    /\ Fresh
    /\ \E left \in NodesByEnd, right \in NodesByStart, options \in SkipOptions :
           /\ called' = Call2("getLastTokenBetween", left, right, options)
           /\ returned' = getLastTokenBetween(left, right, options)
           /\ UNCHANGED store

GetLastTokensBetween ==
    /\ Fresh
    /\ \E left \in NodesByEnd, right \in NodesByStart, options \in CountOptions :
           /\ called' = Call2("getLastTokensBetween", left, right, options)
           /\ returned' = getLastTokensBetween(left, right, options)
           /\ UNCHANGED store

GetTokensBetween ==
    /\ Fresh
    /\ \E left \in NodesByEnd, right \in NodesByStart, options \in CountOptions :
           /\ called' = Call2("getTokensBetween", left, right, options)
           /\ returned' = getTokensBetween(left, right, options)
           /\ UNCHANGED store

\* getAllComments() without the assignment to cacheAllComments.
GetAllCommentsNotStored ==
    /\ called' = [method |-> "getAllComments"]
    /\ returned' = collectComments(allTokens)
    /\ UNCHANGED store

\* getAllComments(): the cached list when there is one (an empty list is a
\* cache too), else the comments of allTokens, which it caches.
GetAllComments ==
    /\ called' = [method |-> "getAllComments"]
    /\ IF cacheAllComments.set
       THEN /\ returned' = cacheAllComments.value
            /\ UNCHANGED cacheAllComments
       ELSE /\ returned' = collectComments(allTokens)
            /\ cacheAllComments' = [set |-> TRUE, value |-> collectComments(allTokens)]
    /\ UNCHANGED <<tokens, allTokens, tokenStartToIndex>>

GetCommentsInside ==
    /\ Fresh
    /\ \E node \in Nodes :
           /\ called' = [method |-> "getCommentsInside", node |-> node]
           /\ returned' = getCommentsInside(node)
           /\ UNCHANGED store

GetCommentsBefore ==
    /\ Fresh
    /\ \E node \in NodesByStart :
           /\ called' = [method |-> "getCommentsBefore", node |-> node]
           /\ returned' = getCommentsBefore(node)
           /\ UNCHANGED store

GetCommentsAfter ==
    /\ Fresh
    /\ \E node \in NodesByEnd :
           /\ called' = [method |-> "getCommentsAfter", node |-> node]
           /\ returned' = getCommentsAfter(node)
           /\ UNCHANGED store

CommentsExistBetween ==
    /\ Fresh
    /\ \E left \in NodesByEnd, right \in NodesByStart :
           /\ called' = [method |-> "commentsExistBetween",
                         left |-> left, right |-> right]
           /\ returned' = commentsExistBetween(left, right)
           /\ UNCHANGED store

IsSpaceBetween ==
    /\ Fresh
    /\ \E left \in NodesByEnd, right \in NodesByStart :
           /\ called' = [method |-> "isSpaceBetween", left |-> left, right |-> right]
           /\ returned' = isSpaceBetween(left, right)
           /\ UNCHANGED store

\* isSpaceBetween(x, y) for two elements x and y of the store
IsSpaceBetweenOfElements ==
    /\ Fresh
    /\ \E i \in 1..Len(allTokens), j \in 1..Len(allTokens) :
           /\ called' = [method |-> "isSpaceBetween",
                         left |-> allTokens[i], right |-> allTokens[j]]
           /\ returned' = isSpaceBetween(allTokens[i], allTokens[j])
           /\ UNCHANGED store

----------------------------------------------------------------------------
\* The same operations put to a store that has answered other queries before:
\* a caller keeps the store and asks again.
LaterNode == [range |-> <<1, 2>>]
LaterLeft == [range |-> <<0, 1>>]
LaterRight == [range |-> <<2, MaxOff>>]

Answers(call, result) ==
    /\ called' = call
    /\ returned' = result
    /\ UNCHANGED store

LaterGetAllTokens == Answers([method |-> "getAllTokens"], allTokens)

LaterGetFirstToken ==
    Answers(Call1("getFirstToken", LaterNode, undefined), getFirstToken(LaterNode, undefined))

LaterGetFirstTokens ==
    Answers(Call1("getFirstTokens", LaterNode, undefined), getFirstTokens(LaterNode, undefined))

LaterGetLastToken ==
    Answers(Call1("getLastToken", LaterNode, undefined), getLastToken(LaterNode, undefined))

\* getLastTokens reversing allTokens in place to scan it from the end.
LaterGetLastTokensReversing ==
    /\ called' = Call1("getLastTokens", LaterNode, undefined)
    /\ returned' = getLastTokens(LaterNode, undefined)
    /\ allTokens' = [i \in 1..Len(allTokens) |-> allTokens[Len(allTokens) + 1 - i]]
    /\ UNCHANGED <<tokens, tokenStartToIndex, cacheAllComments>>

LaterGetLastTokens ==
    Answers(Call1("getLastTokens", LaterNode, undefined), getLastTokens(LaterNode, undefined))

LaterGetTokenAfter ==
    Answers(Call1("getTokenAfter", LaterNode, undefined), getTokenAfter(LaterNode, undefined))

LaterGetTokensAfter ==
    Answers(Call1("getTokensAfter", LaterNode, undefined), getTokensAfter(LaterNode, undefined))

LaterGetTokenBefore ==
    Answers(Call1("getTokenBefore", LaterNode, undefined), getTokenBefore(LaterNode, undefined))

LaterGetTokensBefore ==
    Answers(Call1("getTokensBefore", LaterNode, undefined), getTokensBefore(LaterNode, undefined))

LaterGetTokens ==
    Answers(Call1("getTokens", LaterNode, undefined), getTokens(LaterNode, undefined))

LaterGetFirstTokenBetween ==
    Answers(Call2("getFirstTokenBetween", LaterLeft, LaterRight, undefined),
            getFirstTokenBetween(LaterLeft, LaterRight, undefined))

LaterGetFirstTokensBetween ==
    Answers(Call2("getFirstTokensBetween", LaterLeft, LaterRight, undefined),
            getFirstTokensBetween(LaterLeft, LaterRight, undefined))

LaterGetLastTokenBetween ==
    Answers(Call2("getLastTokenBetween", LaterLeft, LaterRight, undefined),
            getLastTokenBetween(LaterLeft, LaterRight, undefined))

LaterGetLastTokensBetween ==
    Answers(Call2("getLastTokensBetween", LaterLeft, LaterRight, undefined),
            getLastTokensBetween(LaterLeft, LaterRight, undefined))

LaterGetTokensBetween ==
    Answers(Call2("getTokensBetween", LaterLeft, LaterRight, undefined),
            getTokensBetween(LaterLeft, LaterRight, undefined))

LaterGetCommentsInside ==
    Answers([method |-> "getCommentsInside", node |-> LaterNode], getCommentsInside(LaterNode))

LaterGetCommentsBefore ==
    Answers([method |-> "getCommentsBefore", node |-> LaterNode], getCommentsBefore(LaterNode))

LaterGetCommentsAfter ==
    Answers([method |-> "getCommentsAfter", node |-> LaterNode], getCommentsAfter(LaterNode))

LaterCommentsExistBetween ==
    Answers([method |-> "commentsExistBetween", left |-> LaterLeft, right |-> LaterRight],
            commentsExistBetween(LaterLeft, LaterRight))

LaterIsSpaceBetween ==
    Answers([method |-> "isSpaceBetween", left |-> LaterLeft, right |-> LaterRight],
            isSpaceBetween(LaterLeft, LaterRight))

\* The offsets the index helpers are asked about: those of the coordinate
\* space and one past them.
Locations == 0..(MaxOff + 1)

\* getFirstIndex(allTokens, tokenStartToIndex, startLoc), as the queries call it
GetFirstIndex ==
    /\ Fresh
    /\ \E startLoc \in Locations :
           /\ called' = [method |-> "getFirstIndex", location |-> startLoc]
           /\ returned' = getFirstIndex(allTokens, tokenStartToIndex, startLoc)
           /\ UNCHANGED store

\* getLastIndex(allTokens, tokenStartToIndex, endLoc), as the queries call it
GetLastIndex ==
    /\ Fresh
    /\ \E endLoc \in Locations :
           /\ called' = [method |-> "getLastIndex", location |-> endLoc]
           /\ returned' = getLastIndex(allTokens, tokenStartToIndex, endLoc)
           /\ UNCHANGED store

\* search(allTokens, location)
Search ==
    /\ Fresh
    /\ \E location \in Locations :
           /\ called' = [method |-> "search", location |-> location]
           /\ returned' = search(allTokens, location)
           /\ UNCHANGED store

\* getTokenAfter(x, options) for a token or comment x of the store
GetTokenAfterOfElement ==
    /\ Fresh
    /\ \E i \in 1..Len(allTokens), options \in FilterOptions :
           /\ called' = Call1("getTokenAfter", allTokens[i], options)
           /\ returned' = getTokenAfter(allTokens[i], options)
           /\ UNCHANGED store

\* getTokenBefore(y, options) for the element y that getTokenAfter(x, options)
\* has just returned; of remembers x.
GetTokenBeforeOfReturned ==
    /\ called.method = "getTokenAfter"
    /\ returned # null
    /\ called' = [method |-> "getTokenBefore", node |-> returned,
                  options |-> called.options, of |-> called.node]
    /\ returned' = getTokenBefore(returned, called.options)
    /\ UNCHANGED store

\* Construction, then reading the sorted list.
Next == GetAllTokens
Spec == Init /\ [][Next]_vars

\* Construction, then getTokens on a node.
NextTokens == GetTokens
SpecTokens == InitInOrder /\ [][NextTokens]_vars

\* Construction, then getTokens(node) with no options.
NextTokensOfNode == GetTokensOfNode
SpecTokensOfNode == InitInOrder /\ [][NextTokensOfNode]_vars

\* Construction, then getFirstToken on a node.
NextFirst == GetFirstToken
SpecFirst == InitInOrder /\ [][NextFirst]_vars

\* Construction, then one of the multi-element queries.
NextMulti ==
    \/ GetFirstTokens \/ GetLastTokens \/ GetTokensAfter \/ GetTokensBefore
    \/ GetTokens \/ GetFirstTokensBetween \/ GetLastTokensBetween
    \/ GetTokensBetween
SpecMulti == InitInOrder /\ [][NextMulti]_vars

\* Construction, then one of the single-element or multi-element queries.
NextQueries ==
    \/ GetFirstToken \/ GetLastToken \/ GetTokenAfter \/ GetTokenBefore
    \/ GetFirstTokenBetween \/ GetLastTokenBetween
    \/ NextMulti
SpecQueries == InitInOrder /\ [][NextQueries]_vars

\* Construction, then any number of queries in any order, getAllComments
\* among them.
NextSession ==
    \/ GetAllComments \/ LaterGetAllTokens \/ LaterGetFirstToken
    \/ LaterGetFirstTokens \/ LaterGetLastToken \/ LaterGetLastTokens
    \/ LaterGetTokenAfter \/ LaterGetTokensAfter \/ LaterGetTokenBefore
    \/ LaterGetTokensBefore \/ LaterGetTokens \/ LaterGetFirstTokenBetween
    \/ LaterGetFirstTokensBetween \/ LaterGetLastTokenBetween
    \/ LaterGetLastTokensBetween \/ LaterGetTokensBetween
    \/ LaterGetCommentsInside \/ LaterGetCommentsBefore
    \/ LaterGetCommentsAfter \/ LaterCommentsExistBetween
    \/ LaterIsSpaceBetween
SpecSession == InitInOrder /\ [][NextSession]_vars

\* Construction, then one of the index helpers on an offset.
SpecFirstIndex == InitInOrder /\ [][GetFirstIndex]_vars
SpecLastIndex == InitInOrder /\ [][GetLastIndex]_vars
SpecSearch == InitInOrder /\ [][Search]_vars

\* Construction, then one of the single-element queries that has a
\* multi-element counterpart other than getFirstToken's.
NextSingle ==
    \/ GetLastToken \/ GetTokenAfter \/ GetTokenBefore
    \/ GetFirstTokenBetween \/ GetLastTokenBetween
SpecSingle == InitInOrder /\ [][NextSingle]_vars

\* Construction, then one of the queries between left and right.
NextBetween ==
    \/ GetFirstTokenBetween \/ GetLastTokenBetween \/ GetFirstTokensBetween
    \/ GetLastTokensBetween \/ GetTokensBetween \/ CommentsExistBetween
SpecBetween == InitInOrder /\ [][NextBetween]_vars

\* Construction, then isSpaceBetween(left, right).
SpecSpace == InitInOrder /\ [][IsSpaceBetween]_vars

\* Construction, then isSpaceBetween(x, y) for two elements of the store.
SpecSpaceOfElements == InitInOrder /\ [][IsSpaceBetweenOfElements]_vars

\* Construction, then getCommentsBefore or getCommentsAfter of a node.
NextCommentsAround == GetCommentsBefore \/ GetCommentsAfter
SpecCommentsAround == InitInOrder /\ [][NextCommentsAround]_vars

\* Construction, then getCommentsInside of a node.
SpecCommentsInside == InitInOrder /\ [][GetCommentsInside]_vars

\* Construction, then commentsExistBetween(left, right).
SpecCommentsExist == InitInOrder /\ [][CommentsExistBetween]_vars

\* Construction, then getTokens(node, {includeComments: true}).
SpecTokensIncludingComments == InitInOrder /\ [][GetTokensIncludingComments]_vars

\* Construction, then getFirstToken or getLastToken of a node.
NextEnds == GetFirstToken \/ GetLastToken
SpecEnds == InitInOrder /\ [][NextEnds]_vars

\* Construction, then getTokenAfter on an element of the store and
\* getTokenBefore on what it returned.
NextAdjacent == GetTokenAfterOfElement \/ GetTokenBeforeOfReturned
SpecAdjacent == InitInOrder /\ [][NextAdjacent]_vars

----------------------------------------------------------------------------
\* Properties.

Start(token) == token.range[1]
End(token) == token.range[2]
ZeroWidth(token) == Start(token) = End(token)

IsSortedByStart(seq) ==
    \A i \in 2..Len(seq) : Start(seq[i - 1]) <= Start(seq[i])

\* C1: getAllTokens() is non-decreasing by start offset, whatever the order of
\* the constructor's input.
C1_AllTokensSorted ==
    called.method = "getAllTokens" => IsSortedByStart(returned)

\* C1 witness: getAllTokens() has answered for a store built from three
\* elements given out of order.
C1_Witness ==
    /\ called.method = "getAllTokens"
    /\ Len(tokens) >= 3
    /\ Start(tokens[1]) > Start(tokens[2])
    /\ Start(tokens[2]) > Start(tokens[3])
    /\ returned = <<tokens[3], tokens[2], tokens[1]>>

\* C2: getAllTokens() is the stable sort of the input by start offset: the same
\* elements, each as often as in the input, sorted, and elements of equal
\* start offset in their input order.
C2_AllTokensStableSort ==
    called.method = "getAllTokens" =>
        /\ Len(returned) = Len(tokens)
        /\ \A i \in 1..Len(tokens) :
               Cardinality({j \in 1..Len(returned) : returned[j] = tokens[i]}) = 1
        /\ IsSortedByStart(returned)
        /\ \A i, j \in 1..Len(returned) :
               (i < j /\ Start(returned[i]) = Start(returned[j]))
                   => returned[i].id < returned[j].id

\* C2 witness: getAllTokens() has answered for an input out of order that
\* holds two elements of equal start offset and equal range.
C2_Witness ==
    /\ called.method = "getAllTokens"
    /\ Len(tokens) >= 3
    /\ tokens[1].range = tokens[2].range
    /\ Start(tokens[3]) < Start(tokens[1])
    /\ returned = <<tokens[3], tokens[1], tokens[2]>>

\* The elements of seq, in order, at the positions in the set pos.
RECURSIVE Pick(_, _, _)
Pick(seq, pos, i) ==
    IF i > Len(seq) THEN <<>>
    ELSE IF i \in pos THEN <<seq[i]>> \o Pick(seq, pos, i + 1)
    ELSE Pick(seq, pos, i + 1)

\* The interval of allTokens[i] lies within [n.start, n.end).
Within(node, i) ==
    /\ Start(node) <= Start(allTokens[i])
    /\ End(allTokens[i]) <= End(node)

\* allTokens[i] is a zero-width element at one of the node's boundary offsets.
AtBoundary(node, i) ==
    /\ ZeroWidth(allTokens[i])
    /\ Start(allTokens[i]) \in {Start(node), End(node)}

\* The elements do not overlap: each ends at or before the start of the next.
NonOverlapping ==
    \A i \in 2..Len(allTokens) : End(allTokens[i - 1]) <= Start(allTokens[i])

\* The node's end does not fall inside an element.
EndsBetweenElements(node) ==
    \A i \in 1..Len(allTokens) :
        ~(Start(allTokens[i]) < End(node) /\ End(node) < End(allTokens[i]))

\* allTokens[i] has a non-zero-width element of the node before it and one
\* after it in allTokens.
Enclosed(node, i) ==
    /\ \E j \in 1..(i - 1) : ~ZeroWidth(allTokens[j]) /\ Within(node, j)
    /\ \E j \in (i + 1)..Len(allTokens) : ~ZeroWidth(allTokens[j]) /\ Within(node, j)

\* C3 as stated: getTokens(n) is exactly the non-comment elements within
\* [n.start, n.end), in order, less the zero-width ones at n.start and n.end.
C3_TokensOfNodeAsStated ==
    (called.method = "getTokens" /\ called.options = undefined) =>
        returned = Pick(allTokens,
                        {i \in 1..Len(allTokens) :
                            /\ ~isComment(allTokens[i])
                            /\ Within(called.node, i)
                            /\ ~AtBoundary(called.node, i)}, 1)

\* C3 amended: for non-overlapping elements and a node whose end does not
\* fall inside an element, getTokens(n) is exactly the non-comment elements
\* within [n.start, n.end), in order, a zero-width one only when a
\* non-zero-width element of the node precedes it and one follows it.
C3_TokensOfNode ==
    (/\ called.method = "getTokens" /\ called.options = undefined
     /\ NonOverlapping /\ EndsBetweenElements(called.node)) =>
        returned = Pick(allTokens,
                        {i \in 1..Len(allTokens) :
                            /\ ~isComment(allTokens[i])
                            /\ Within(called.node, i)
                            /\ (ZeroWidth(allTokens[i]) => Enclosed(called.node, i))}, 1)

\* C3 witness: getTokens(n) has returned a token, a zero-width token and a
\* token of a node.
C3_Witness ==
    /\ called.method = "getTokens" /\ called.options = undefined
    /\ NonOverlapping /\ EndsBetweenElements(called.node)
    /\ Len(returned) = 3
    /\ ZeroWidth(returned[2])

\* The options with the skip or count taken away: the same includeComments
\* and filter setting, no limit.
Unlimited(options) ==
    IF options.kind = "number" THEN undefined
    ELSE IF options.kind = "object"
         THEN ObjectOption(options.includeComments, options.hasFilter,
                           options.filter, FALSE, 0)
         ELSE options

\* The skip a single-element query is asked for: {skip: k}, the bare number
\* k, and 0 when the options name none.
SkipOf(options) ==
    IF options.kind = "number" \/ (options.kind = "object" /\ options.hasNum)
    THEN options.num ELSE 0

\* The element at 0-based position k of seq, null when there is none.
At(seq, k) == IF k < Len(seq) THEN seq[k + 1] ELSE null

\* C4: getFirstToken(n, {skip: k}) is the element at index k of getTokens(n)
\* under the same includeComments and filter setting and no count, and null
\* when getTokens(n) has no index k.
C4_FirstTokenIsKthOfTokens ==
    called.method = "getFirstToken" =>
        returned = At(getTokens(called.node, Unlimited(called.options)),
                      SkipOf(called.options))

\* C4 witness: getFirstToken(n, {includeComments: true, skip: 1}) has
\* returned a comment, the second of three elements of the node.
C4_Witness ==
    /\ called.method = "getFirstToken"
    /\ called.options = ObjectOption(TRUE, FALSE, "any", TRUE, 1)
    /\ Len(getTokens(called.node, Unlimited(called.options))) = 3
    /\ returned # null /\ isComment(returned)

\* The round trip has been made: y = getTokenAfter(x, options) was returned
\* for an element x that the filter in use accepts, and getTokenBefore(y,
\* options) has answered.
RoundTripMade ==
    /\ called.method = "getTokenBefore"
    /\ "of" \in DOMAIN called
    /\ filterAccepts(normalizeSkipOptions(called.options).filter, called.of)

\* C5 as stated: getTokenBefore(getTokenAfter(x)) is x for every x of the
\* store that the filter in use accepts.
C5_RoundTripAsStated ==
    RoundTripMade => returned = called.of

NoZeroWidth ==
    \A i \in 1..Len(allTokens) : ~ZeroWidth(allTokens[i])

\* C5 amended: in a store of non-overlapping elements none of which is
\* zero-width, getTokenBefore(getTokenAfter(x)) is x for every x of the store
\* that the filter in use accepts.
C5_RoundTrip ==
    (RoundTripMade /\ NonOverlapping /\ NoZeroWidth) => returned = called.of

\* C5 witness: the round trip has come back to x past a comment that lies
\* between x and getTokenAfter(x).
C5_Witness ==
    /\ RoundTripMade /\ NonOverlapping /\ NoZeroWidth
    /\ called.options = undefined
    /\ returned = called.of
    /\ \E i \in 1..Len(allTokens) :
           /\ isComment(allTokens[i])
           /\ Start(called.of) < Start(allTokens[i])
           /\ Start(allTokens[i]) < Start(called.node)

SingleMethods ==
    {"getFirstToken", "getLastToken", "getTokenAfter", "getTokenBefore",
     "getFirstTokenBetween", "getLastTokenBetween"}
ForwardMultiMethods ==
    {"getFirstTokens", "getTokens", "getTokensAfter", "getFirstTokensBetween",
     "getTokensBetween"}
BackwardMultiMethods == {"getLastTokens", "getTokensBefore", "getLastTokensBetween"}
MultiMethods == ForwardMultiMethods \cup BackwardMultiMethods
BetweenMethods ==
    {"getFirstTokenBetween", "getLastTokenBetween", "getFirstTokensBetween",
     "getLastTokensBetween", "getTokensBetween"}

\* A query has answered.
Queried == called.method \in SingleMethods \cup MultiMethods

\* The elements the last query returned.
ReturnedElements ==
    IF called.method \in MultiMethods
    THEN {returned[i] : i \in 1..Len(returned)}
    ELSE IF returned = null THEN {} ELSE {returned}

\* The options do not set includeComments: true.
CommentsNotAskedFor(options) == ~(options.kind = "object" /\ options.includeComments)

\* The 0-based positions of the window the last query scans.
WindowFirst ==
    IF called.method \in BetweenMethods
    THEN getFirstIndex(allTokens, tokenStartToIndex, End(called.left))
    ELSE IF called.method \in {"getTokenAfter", "getTokensAfter"}
         THEN getFirstIndex(allTokens, tokenStartToIndex, End(called.node))
    ELSE IF called.method \in {"getTokenBefore", "getTokensBefore"} THEN 0
    ELSE getFirstIndex(allTokens, tokenStartToIndex, Start(called.node))

WindowLast ==
    IF called.method \in BetweenMethods
    THEN getLastIndex(allTokens, tokenStartToIndex, Start(called.right))
    ELSE IF called.method \in {"getTokenAfter", "getTokensAfter"}
         THEN Len(allTokens) - 1
    ELSE IF called.method \in {"getTokenBefore", "getTokensBefore"}
         THEN getLastIndex(allTokens, tokenStartToIndex, Start(called.node))
    ELSE getLastIndex(allTokens, tokenStartToIndex, End(called.node))

Window == {i \in 1..Len(allTokens) : WindowFirst <= i - 1 /\ i - 1 <= WindowLast}

\* C6: unless the options are a record with includeComments: true, no query
\* returns a comment, whatever the filter answers for comments.
C6_NoCommentUnlessAskedFor ==
    (Queried /\ CommentsNotAskedFor(called.options)) =>
        \A e \in ReturnedElements : ~isComment(e)

\* C6 witness: a query was given a bare predicate that accepts a comment of
\* its window, and has returned an element.
C6_Witness ==
    /\ Queried
    /\ called.options = FunctionOption("odd")
    /\ \E i \in Window : isComment(allTokens[i]) /\ callFilter("odd", allTokens[i])
    /\ ReturnedElements # {}

\* C7: getTokens(n, {includeComments: true}) is every element of the window,
\* tokens and comments, in order; with a filter f it is the elements of the
\* window that f accepts, comments among them.
C7_IncludeComments ==
    (/\ called.method = "getTokens"
     /\ called.options.kind = "object" /\ called.options.includeComments
     /\ ~called.options.hasNum) =>
        returned = Pick(allTokens,
                        {i \in Window : called.options.hasFilter =>
                                            callFilter(called.options.filter, allTokens[i])}, 1)

\* C7 witness: getTokens(n, {includeComments: true, filter: f}) has returned
\* a comment and a token and left out an element of the window.
C7_Witness ==
    /\ called.method = "getTokens"
    /\ called.options = ObjectOption(TRUE, TRUE, "odd", FALSE, 0)
    /\ Len(returned) = 2
    /\ isComment(returned[1]) /\ ~isComment(returned[2])
    /\ Cardinality(Window) = 3

\* What the method of the last call answers for the same arguments and
\* other options.
Answer(options) ==
    CASE called.method = "getFirstToken" -> getFirstToken(called.node, options)
      [] called.method = "getLastToken" -> getLastToken(called.node, options)
      [] called.method = "getTokenAfter" -> getTokenAfter(called.node, options)
      [] called.method = "getTokenBefore" -> getTokenBefore(called.node, options)
      [] called.method = "getFirstTokenBetween" ->
            getFirstTokenBetween(called.left, called.right, options)
      [] called.method = "getLastTokenBetween" ->
            getLastTokenBetween(called.left, called.right, options)
      [] called.method = "getFirstTokens" -> getFirstTokens(called.node, options)
      [] called.method = "getLastTokens" -> getLastTokens(called.node, options)
      [] called.method = "getTokensAfter" -> getTokensAfter(called.node, options)
      [] called.method = "getTokensBefore" -> getTokensBefore(called.node, options)
      [] called.method = "getTokens" -> getTokens(called.node, options)
      [] called.method = "getFirstTokensBetween" ->
            getFirstTokensBetween(called.left, called.right, options)
      [] called.method = "getLastTokensBetween" ->
            getLastTokensBetween(called.left, called.right, options)
      [] called.method = "getTokensBetween" ->
            getTokensBetween(called.left, called.right, options)

\* {skip: n} for a single-element query, {count: n} for a multi-element one.
RecordOfNumber(n) == ObjectOption(FALSE, FALSE, "any", TRUE, n)

\* C8: a bare integer n as options answers as {skip: n} does for every
\* single-element query and as {count: n} does for every multi-element
\* query, and the answer holds no comment.
C8_NumberIsSkipOrCount ==
    (Queried /\ called.options.kind = "number") =>
        /\ returned = Answer(RecordOfNumber(called.options.num))
        /\ \A e \in ReturnedElements : ~isComment(e)

\* C8 witness: a single-element query given the bare integer 1 has skipped
\* a token of a window that also holds a comment and returned the next token.
C8_Witness ==
    /\ called.method \in SingleMethods
    /\ called.options = NumberOption(1)
    /\ returned # null
    /\ returned # Answer(undefined)
    /\ \E i \in Window : isComment(allTokens[i])

\* The base predicate and the comment rule the options of the last call
\* amount to.
Accepted(e) ==
    /\ CommentsNotAskedFor(called.options) => ~isComment(e)
    /\ (called.options.kind = "function"
        \/ (called.options.kind = "object" /\ called.options.hasFilter))
       => callFilter(called.options.filter, e)

\* The matches of the window of the last call, in store order.
Matches == Pick(allTokens, {i \in Window : Accepted(allTokens[i])}, 1)

Min(a, b) == IF a <= b THEN a ELSE b

\* C9: a count c > 0 limits a multi-element query to the first min(c, m) of
\* the m matches of its window for the forward scanning methods and to the
\* last min(c, m) for getLastTokens, getTokensBefore and
\* getLastTokensBetween; a count <= 0 or no count returns all m matches.
C9_CountLimits ==
    called.method \in MultiMethods =>
        LET c == SkipOf(called.options)
            m == Len(Matches)
            k == Min(c, m)
        IN  IF c > 0
            THEN IF called.method \in ForwardMultiMethods
                 THEN returned = SubSeq(Matches, 1, k)
                 ELSE returned = SubSeq(Matches, m - k + 1, m)
            ELSE returned = Matches

\* C9 witness: a backward scanning query with count 1 over a window of
\* three matches has returned the last of them alone.
C9_Witness ==
    /\ called.method \in BackwardMultiMethods
    /\ SkipOf(called.options) = 1
    /\ Len(Matches) = 3
    /\ returned = <<Matches[3]>>

\* The position of an element in getAllTokens(), 0 when it is not there.
PositionOf(e) ==
    IF \E i \in 1..Len(allTokens) : allTokens[i] = e
    THEN CHOOSE i \in 1..Len(allTokens) : allTokens[i] = e
    ELSE 0

\* C10: every multi-element query returns elements of getAllTokens() at
\* strictly increasing positions, so in forward document order and none
\* twice.
C10_ForwardOrder ==
    called.method \in MultiMethods =>
        /\ \A i \in 1..Len(returned) : PositionOf(returned[i]) > 0
        /\ \A i \in 1..Len(returned) : \A j \in 1..Len(returned) :
               i < j => PositionOf(returned[i]) < PositionOf(returned[j])

\* C10 witness: a backward scanning query has returned three elements.
C10_Witness ==
    /\ called.method \in BackwardMultiMethods
    /\ Len(returned) = 3

\* getFirstToken has answered a zero-width element that starts at the node's
\* start, or getLastToken one that starts at the node's end.
ZeroWidthAtBoundaryReturned ==
    /\ called.method \in {"getFirstToken", "getLastToken"}
    /\ returned # null
    /\ ZeroWidth(returned)
    /\ Start(returned) = IF called.method = "getFirstToken"
                         THEN Start(called.node) ELSE End(called.node)

\* C11 as stated: under any options, getFirstToken(n, options) never returns
\* a zero-width element that starts at n.start and getLastToken(n, options)
\* never one that starts at n.end.
C11_ZeroWidthNeverAtBoundaryAsStated == ~ZeroWidthAtBoundaryReturned

\* C11 amended: in a store whose elements do not overlap, getFirstToken(n,
\* options) never returns a zero-width element that starts at n.start and
\* getLastToken(n, options) never one that starts at n.end.
C11_ZeroWidthNeverAtBoundary == NonOverlapping => ~ZeroWidthAtBoundaryReturned

\* C11 witness: the store holds a zero-width element at the start of the node
\* and no overlap, and getFirstToken has returned the element that starts
\* there after it.
C11_Witness ==
    /\ called.method = "getFirstToken"
    /\ NonOverlapping
    /\ \E i \in 1..Len(allTokens) :
           ZeroWidth(allTokens[i]) /\ Start(allTokens[i]) = Start(called.node)
    /\ returned # null /\ ~ZeroWidth(returned)
    /\ Start(returned) = Start(called.node)

\* allTokens[i] is a zero-width element that starts strictly inside the node.
ZeroWidthInside(node, i) ==
    /\ ZeroWidth(allTokens[i])
    /\ Start(node) < Start(allTokens[i])
    /\ Start(allTokens[i]) < End(node)

\* A non-zero-width element that starts at or after the node's start stands
\* before allTokens[i], and one that starts before the node's end after it.
Flanked(node, i) ==
    /\ \E j \in 1..(i - 1) :
           ~ZeroWidth(allTokens[j]) /\ Start(node) <= Start(allTokens[j])
    /\ \E j \in (i + 1)..Len(allTokens) :
           ~ZeroWidth(allTokens[j]) /\ Start(allTokens[j]) < End(node)

Contains(seq, e) == \E k \in 1..Len(seq) : seq[k] = e

\* C12 as stated: for every node n and zero-width element z with
\* n.start < z.start < n.end, getTokens(n, {includeComments: true}) contains z.
C12_ZeroWidthInInteriorAsStated ==
    (called.method = "getTokens" /\ called.options = IncludeComments) =>
        \A i \in 1..Len(allTokens) :
            ZeroWidthInside(called.node, i) => Contains(returned, allTokens[i])

\* C12 amended: getTokens(n, {includeComments: true}) contains every
\* zero-width element z with n.start < z.start < n.end that has a
\* non-zero-width element starting at or after n.start before it in allTokens
\* and a non-zero-width element starting before n.end after it.
C12_ZeroWidthInInterior ==
    (called.method = "getTokens" /\ called.options = IncludeComments) =>
        \A i \in 1..Len(allTokens) :
            (ZeroWidthInside(called.node, i) /\ Flanked(called.node, i)) =>
                Contains(returned, allTokens[i])

\* C12 witness: getTokens(n, {includeComments: true}) has returned a
\* zero-width element of the interior between two elements of the node.
C12_Witness ==
    /\ called.method = "getTokens" /\ called.options = IncludeComments
    /\ Len(returned) = 3
    /\ \E i \in 1..Len(allTokens) :
           /\ ZeroWidthInside(called.node, i) /\ Flanked(called.node, i)
           /\ returned[2] = allTokens[i]

\* C13: commentsExistBetween(left, right) is true exactly when
\* getTokensBetween(left, right, {includeComments: true}) holds a comment.
C13_CommentsExistIffTokensBetweenHasComment ==
    called.method = "commentsExistBetween" =>
        LET between == getTokensBetween(called.left, called.right, IncludeComments)
        IN  returned = (\E k \in 1..Len(between) : isComment(between[k]))

\* C13 witness: commentsExistBetween has answered true where the elements
\* between left and right are a token and then a comment.
C13_Witness ==
    /\ called.method = "commentsExistBetween"
    /\ returned = TRUE
    /\ LET between == getTokensBetween(called.left, called.right, IncludeComments)
       IN  Len(between) = 2 /\ ~isComment(between[1]) /\ isComment(between[2])

\* C14: isSpaceBetween(left, right) is false whenever left.end >= right.start,
\* left = right included, whatever the store holds.
C14_NoSpaceWhenTouchingOrOverlapping ==
    (called.method = "isSpaceBetween" /\ End(called.left) >= Start(called.right)) =>
        returned = FALSE

\* C14 witness: isSpaceBetween has answered false for an overlapping pair
\* over a store whose elements have a gap between them.
C14_Witness ==
    /\ called.method = "isSpaceBetween"
    /\ End(called.left) > Start(called.right)
    /\ returned = FALSE
    /\ \E i \in 2..Len(allTokens) : End(allTokens[i - 1]) < Start(allTokens[i])

\* left and right are tokens of the store with the comment allTokens[i] and
\* nothing else between them.
OnlyCommentBetween(i) ==
    /\ 1 < i /\ i < Len(allTokens)
    /\ called.left = allTokens[i - 1] /\ ~isComment(called.left)
    /\ isComment(allTokens[i])
    /\ called.right = allTokens[i + 1] /\ ~isComment(called.right)

\* The comment allTokens[i] begins where left ends and ends where right
\* begins, and the three are of non-zero width.
Abuts(i) ==
    /\ Start(called.left) < End(called.left)
    /\ End(called.left) = Start(allTokens[i])
    /\ Start(allTokens[i]) < End(allTokens[i])
    /\ End(allTokens[i]) = Start(called.right)
    /\ Start(called.right) < End(called.right)

\* C15 as stated: two tokens separated only by a comment with no whitespace
\* around it (left.end = comment.start, comment.end = right.start) still
\* report isSpaceBetween(left, right) = true.
C15_CommentCountsAsSpaceAsStated ==
    called.method = "isSpaceBetween" =>
        \A i \in 1..Len(allTokens) :
            (OnlyCommentBetween(i) /\ Abuts(i)) => returned = TRUE

\* C15 amended: a comment is content like a token. In a store whose elements
\* do not overlap, for two tokens separated only by a comment,
\* isSpaceBetween(left, right) is true exactly when there is a gap before or
\* after the comment; when the comment abuts both tokens it is false.
C15_CommentCountsAsContent ==
    (called.method = "isSpaceBetween" /\ NonOverlapping) =>
        \A i \in 1..Len(allTokens) :
            OnlyCommentBetween(i) =>
                returned = (\/ End(called.left) < Start(allTokens[i])
                            \/ End(allTokens[i]) < Start(called.right))

\* C15 witness: isSpaceBetween has answered false for two tokens with a
\* comment of non-zero width between them that abuts both.
C15_Witness ==
    /\ called.method = "isSpaceBetween"
    /\ returned = FALSE
    /\ \E i \in 1..Len(allTokens) :
           OnlyCommentBetween(i) /\ Abuts(i) /\ NonOverlapping

\* The number of elements of allTokens that start before the offset.
StartingBefore(offset) ==
    Cardinality({i \in 1..Len(allTokens) : Start(allTokens[i]) < offset})

\* The positions from..to of allTokens hold comments only.
AllComments(from, to) == \A k \in from..to : isComment(allTokens[k])

\* The maximal run of comments of allTokens that ends at position last.
RunEndingAt(last) ==
    LET first == CHOOSE j \in 1..(last + 1) :
                     /\ AllComments(j, last)
                     /\ \A k \in 1..(j - 1) : ~AllComments(k, last)
    IN  SubSeq(allTokens, first, last)

\* The maximal run of comments of allTokens that begins at position first.
RunBeginningAt(first) ==
    LET last == CHOOSE j \in (first - 1)..Len(allTokens) :
                    /\ AllComments(first, j)
                    /\ \A k \in (j + 1)..Len(allTokens) : ~AllComments(first, k)
    IN  SubSeq(allTokens, first, last)

\* What C16 says of the last call: the run of comments just before the
\* elements that start at or after x.start, or just after those that start
\* before x.end.
CommentsAroundAsStated ==
    /\ called.method = "getCommentsBefore" =>
           returned = RunEndingAt(StartingBefore(Start(called.node)))
    /\ called.method = "getCommentsAfter" =>
           returned = RunBeginningAt(StartingBefore(End(called.node)) + 1)

\* C16 as stated: getCommentsBefore(x) is the maximal run of consecutive
\* comments of allTokens that immediately precedes x's start boundary and
\* getCommentsAfter(x) the maximal run that immediately follows x's end
\* boundary.
C16_CommentsAroundAsStated == CommentsAroundAsStated

DistinctStarts ==
    \A i \in 2..Len(allTokens) : Start(allTokens[i - 1]) < Start(allTokens[i])

\* C16 amended: in a store with no zero-width element and no two elements
\* that start at the same offset, getCommentsBefore(x) is the maximal run of
\* consecutive comments that ends at the last element starting before
\* x.start, and getCommentsAfter(x) the maximal run that begins at the first
\* element starting at or after x.end; the elements are comments at
\* contiguous positions, in forward order.
C16_CommentsAround ==
    (NoZeroWidth /\ DistinctStarts) => CommentsAroundAsStated

\* C16 witness: getCommentsBefore has returned two comments and stopped at
\* the token before them.
C16_Witness ==
    /\ called.method = "getCommentsBefore"
    /\ NoZeroWidth /\ DistinctStarts
    /\ Len(allTokens) = 3 /\ ~isComment(allTokens[1])
    /\ returned = SubSeq(allTokens, 2, 3)

\* getCommentsInside(x) is the comments of getTokens(x, {includeComments:
\* true}), in the same order.
CommentsInsideAreCommentsOfTokens ==
    returned = SelectSeq(getTokens(called.node, IncludeComments), isComment)

\* No returned comment starts before x.start or at or after x.end.
CommentsInsideStartInside ==
    \A k \in 1..Len(returned) :
        /\ Start(called.node) <= Start(returned[k])
        /\ Start(returned[k]) < End(called.node)

\* C17 as stated: getCommentsInside(x) is the comments of getTokens(x,
\* {includeComments: true}) in the same order, and holds no comment that
\* starts before x.start or at or after x.end.
C17_CommentsInsideAsStated ==
    called.method = "getCommentsInside" =>
        CommentsInsideAreCommentsOfTokens /\ CommentsInsideStartInside

\* C17 amended: getCommentsInside(x) is the comments of getTokens(x,
\* {includeComments: true}) in the same order; in a store whose elements do
\* not overlap it holds no comment that starts before x.start or at or
\* after x.end.
C17_CommentsInside ==
    called.method = "getCommentsInside" =>
        /\ CommentsInsideAreCommentsOfTokens
        /\ NonOverlapping => CommentsInsideStartInside

\* C17 witness: getCommentsInside has returned the one comment of a node that
\* holds three elements, none overlapping another.
C17_Witness ==
    /\ called.method = "getCommentsInside"
    /\ NonOverlapping
    /\ Len(returned) = 1
    /\ Len(getTokens(called.node, IncludeComments)) = 3

\* What a query between left and right answers when nothing matches.
NoMatch ==
    IF called.method \in {"getFirstTokenBetween", "getLastTokenBetween"} THEN null
    ELSE IF called.method = "commentsExistBetween" THEN FALSE
    ELSE <<>>

\* The 0-based positions of allTokens the scan of the last call may read: the
\* forward loops stop at allTokens.length, the backward loops of
\* getLastTokenBetween and getLastTokensBetween have no bound but startIndex.
PositionsRead ==
    LET startIndex == getFirstIndex(allTokens, tokenStartToIndex, End(called.left))
        endIndex == getLastIndex(allTokens, tokenStartToIndex, Start(called.right))
    IN  IF called.method \in {"getLastTokenBetween", "getLastTokensBetween"}
        THEN startIndex..endIndex
        ELSE {i \in startIndex..endIndex : i < Len(allTokens)}

OutOfContract ==
    /\ called.method \in BetweenMethods \cup {"commentsExistBetween"}
    /\ End(called.left) >= Start(called.right)

\* C20: for left.end >= right.start (touching, overlapping or reversed) each
\* of getFirstTokenBetween, getLastTokenBetween, getFirstTokensBetween,
\* getLastTokensBetween, getTokensBetween and commentsExistBetween reads no
\* position outside allTokens and returns its no-match value: null, the
\* empty sequence, false.
C20_OutOfContractIsNoMatch ==
    OutOfContract =>
        /\ PositionsRead \subseteq 0..(Len(allTokens) - 1)
        /\ returned = NoMatch

\* C20 witness: getLastTokensBetween with left.end > right.start has
\* returned the empty sequence over a store of three tokens, two of which
\* start between right.start and left.end.
C20_Witness ==
    /\ called.method = "getLastTokensBetween"
    /\ End(called.left) > Start(called.right)
    /\ called.options = IncludeComments
    /\ returned = <<>>
    /\ Len(allTokens) = 3
    /\ \A i \in 2..3 : /\ Start(called.right) <= Start(allTokens[i])
                       /\ Start(allTokens[i]) < End(called.left)
                       /\ ~ZeroWidth(allTokens[i])

\* The elements of allTokens classified as comments, in allTokens order.
CommentsOfStore ==
    Pick(allTokens, {i \in 1..Len(allTokens) : allTokens[i].comment}, 1)

\* C18: getAllComments() returns the comments of allTokens in allTokens
\* order and leaves them cached, an empty list too; once the cache is set no
\* step changes it, and a later getAllComments() returns the cached sequence.
C18_AllCommentsCachedOnce ==
    [][/\ called'.method = "getAllComments" =>
              /\ returned' = CommentsOfStore
              /\ cacheAllComments' = [set |-> TRUE, value |-> returned']
       /\ cacheAllComments.set =>
              /\ cacheAllComments' = cacheAllComments
              /\ called'.method = "getAllComments" =>
                     returned' = cacheAllComments.value]_vars

\* C18 witness: getAllComments() has answered from a cache that holds the
\* empty list, over a store that has elements.
C18_Witness ==
    /\ called.method = "getAllComments"
    /\ cacheAllComments = [set |-> TRUE, value |-> <<>>]
    /\ returned = <<>>
    /\ Len(allTokens) = MaxLen

\* What the call would answer in the present state of the store.
AnswerTo(call) ==
    CASE call.method = "getAllTokens" -> allTokens
      [] call.method = "getAllComments" ->
            IF cacheAllComments.set THEN cacheAllComments.value
            ELSE collectComments(allTokens)
      [] call.method = "getFirstToken" -> getFirstToken(call.node, call.options)
      [] call.method = "getFirstTokens" -> getFirstTokens(call.node, call.options)
      [] call.method = "getLastToken" -> getLastToken(call.node, call.options)
      [] call.method = "getLastTokens" -> getLastTokens(call.node, call.options)
      [] call.method = "getTokenAfter" -> getTokenAfter(call.node, call.options)
      [] call.method = "getTokensAfter" -> getTokensAfter(call.node, call.options)
      [] call.method = "getTokenBefore" -> getTokenBefore(call.node, call.options)
      [] call.method = "getTokensBefore" -> getTokensBefore(call.node, call.options)
      [] call.method = "getTokens" -> getTokens(call.node, call.options)
      [] call.method = "getFirstTokenBetween" ->
            getFirstTokenBetween(call.left, call.right, call.options)
      [] call.method = "getFirstTokensBetween" ->
            getFirstTokensBetween(call.left, call.right, call.options)
      [] call.method = "getLastTokenBetween" ->
            getLastTokenBetween(call.left, call.right, call.options)
      [] call.method = "getLastTokensBetween" ->
            getLastTokensBetween(call.left, call.right, call.options)
      [] call.method = "getTokensBetween" ->
            getTokensBetween(call.left, call.right, call.options)
      [] call.method = "getCommentsInside" -> getCommentsInside(call.node)
      [] call.method = "getCommentsBefore" -> getCommentsBefore(call.node)
      [] call.method = "getCommentsAfter" -> getCommentsAfter(call.node)
      [] call.method = "commentsExistBetween" ->
            commentsExistBetween(call.left, call.right)
      [] call.method = "isSpaceBetween" -> isSpaceBetween(call.left, call.right)

\* C19: no query changes allTokens or the start-offset index map (the
\* classification of an element is a field of the element here); only
\* getAllComments changes the cache; and after any query the query made
\* before it would return again what it returned.
C19_QueriesLeaveStoreUnchanged ==
    [][/\ allTokens' = allTokens
       /\ tokenStartToIndex' = tokenStartToIndex
       /\ cacheAllComments' # cacheAllComments => called'.method = "getAllComments"
       /\ called # NoCall =>
              \A before \in {called} : AnswerTo(before)' = returned]_vars

\* C19 witness: getLastTokens has answered with two elements on a store
\* whose comment cache an earlier getAllComments() has filled.
C19_Witness ==
    /\ called.method = "getLastTokens"
    /\ Len(returned) = 2
    /\ cacheAllComments.set /\ cacheAllComments.value # <<>>

\* The 0-based positions of the non-zero-width elements that start at or
\* after the offset.
NonEmptyFrom(offset) ==
    {i \in 0..(Len(allTokens) - 1) :
        ~ZeroWidth(allTokens[i + 1]) /\ Start(allTokens[i + 1]) >= offset}

Least(S) == CHOOSE i \in S : \A j \in S : i <= j
Greatest(S) == CHOOSE i \in S : \A j \in S : j <= i

\* getFirstIndex(L) is the smallest index of a non-zero-width element that
\* starts at or after L, allTokens.length when there is none.
FirstIndexIsLeast ==
    returned = IF NonEmptyFrom(called.location) = {} THEN Len(allTokens)
               ELSE Least(NonEmptyFrom(called.location))

\* C21 as stated: for every offset L, getFirstIndex returns the smallest
\* index i with allTokens[i].start >= L and allTokens[i] not zero-width, or
\* allTokens.length.
C21_FirstIndexAsStated == called.method = "getFirstIndex" => FirstIndexIsLeast

\* No two non-zero-width elements start at the same offset.
OneNonEmptyPerStart ==
    \A i \in 1..Len(allTokens) : \A j \in 1..Len(allTokens) :
        (i < j /\ ~ZeroWidth(allTokens[i]) /\ ~ZeroWidth(allTokens[j])) =>
            Start(allTokens[i]) # Start(allTokens[j])

\* C21 amended: when no two non-zero-width elements of the store start at
\* the same offset, getFirstIndex returns for every offset L the smallest
\* index i with allTokens[i].start >= L and allTokens[i] not zero-width, or
\* allTokens.length.
C21_FirstIndex ==
    (called.method = "getFirstIndex" /\ OneNonEmptyPerStart) => FirstIndexIsLeast

\* C21 witness: getFirstIndex has stepped over two zero-width elements at
\* the offset to the element after them.
C21_Witness ==
    /\ called.method = "getFirstIndex"
    /\ OneNonEmptyPerStart
    /\ Len(allTokens) = 3
    /\ ZeroWidth(allTokens[1]) /\ ZeroWidth(allTokens[2])
    /\ Start(allTokens[1]) = called.location
    /\ returned = 2

\* The 0-based positions of the non-zero-width elements that end at or
\* before the offset.
NonEmptyUpTo(offset) ==
    {i \in 0..(Len(allTokens) - 1) :
        ~ZeroWidth(allTokens[i + 1]) /\ End(allTokens[i + 1]) <= offset}

\* getLastIndex(L) is the largest index of a non-zero-width element that
\* ends at or before L, -1 when there is none.
LastIndexIsGreatest ==
    returned = IF NonEmptyUpTo(called.location) = {} THEN -1
               ELSE Greatest(NonEmptyUpTo(called.location))

\* C22 as stated: for every offset L, getLastIndex returns the largest index
\* i with allTokens[i].end <= L and allTokens[i] not zero-width, or -1.
C22_LastIndexAsStated == called.method = "getLastIndex" => LastIndexIsGreatest

\* The offset does not fall strictly inside an element.
BetweenElements(offset) ==
    \A i \in 1..Len(allTokens) :
        ~(Start(allTokens[i]) < offset /\ offset < End(allTokens[i]))

\* C22 amended: when no two non-zero-width elements of the store start at
\* the same offset, for every offset L that does not fall strictly inside an
\* element, getLastIndex returns the largest index i with
\* allTokens[i].end <= L and allTokens[i] not zero-width, or -1.
C22_LastIndex ==
    (/\ called.method = "getLastIndex"
     /\ OneNonEmptyPerStart /\ BetweenElements(called.location)) =>
        LastIndexIsGreatest

\* C22 witness: getLastIndex has stepped back over two zero-width elements
\* that lie before the offset to the element before them.
C22_Witness ==
    /\ called.method = "getLastIndex"
    /\ OneNonEmptyPerStart /\ BetweenElements(called.location)
    /\ Len(allTokens) = 3
    /\ ZeroWidth(allTokens[2]) /\ ZeroWidth(allTokens[3])
    /\ returned = 0

----------------------------------------------------------------------------
\* The positions of allTokens whose element starts at offset, and after it.
StartingAt(offset) ==
    {i \in 0..(Len(allTokens) - 1) : Start(allTokens[i + 1]) = offset}

StartingAfter(offset) ==
    {i \in 0..(Len(allTokens) - 1) : Start(allTokens[i + 1]) > offset}

\* The index at which an element starting at offset would be inserted.
InsertionIndex(offset) ==
    IF StartingAfter(offset) = {} THEN Len(allTokens)
    ELSE Least(StartingAfter(offset))

\* C27: for every sorted allTokens and every offset L, search returns (so it
\* has terminated) the index of an element whose start offset equals L if
\* one exists; otherwise the insertion index, the position of the first
\* element with start offset > L, allTokens.length if there is none, 0 for
\* an empty sequence.
C27_SearchFindsOrInserts ==
    called.method = "search" =>
        IF StartingAt(called.location) # {}
        THEN returned \in StartingAt(called.location)
        ELSE returned = InsertionIndex(called.location)

\* search of an offset at which nothing starts, with elements starting before
\* it and after it, two of them at the same offset.
C27_Witness ==
    /\ called.method = "search"
    /\ Len(allTokens) = 3
    /\ StartingAt(called.location) = {}
    /\ Start(allTokens[1]) = Start(allTokens[2])
    /\ Start(allTokens[2]) < called.location
    /\ called.location < Start(allTokens[3])
    /\ returned = 2

----------------------------------------------------------------------------
\* The positions of allTokens whose element starts at offset and is not
\* zero-width.
NonEmptyStartingAt(offset) ==
    {i \in StartingAt(offset) : ~ZeroWidth(allTokens[i + 1])}

\* The offsets at which a non-zero-width element begins.
NonEmptyStarts == {s \in Offsets : NonEmptyStartingAt(s) # {}}

\* C25 as stated (refuted): tokenStartToIndex maps each start offset s at
\* which a non-zero-width element begins to the position of the first element
\* with that start offset in allTokens.
C25_MapsToFirstAsStated ==
    \A s \in NonEmptyStarts :
        /\ s \in DOMAIN tokenStartToIndex
        /\ tokenStartToIndex[s] = Least(StartingAt(s))

\* C25 amended: tokenStartToIndex maps each start offset s at which a
\* non-zero-width element begins to the position of the last non-zero-width
\* element with that start offset in allTokens.
C25_MapsToLastNonEmpty ==
    \A s \in NonEmptyStarts :
        /\ s \in DOMAIN tokenStartToIndex
        /\ tokenStartToIndex[s] = Greatest(NonEmptyStartingAt(s))

\* A store of a zero-width element and two non-zero-width elements, all
\* starting at the same offset: the map holds the position of the third.
C25_Witness ==
    /\ Len(allTokens) = 3
    /\ ZeroWidth(allTokens[1])
    /\ ~ZeroWidth(allTokens[2])
    /\ ~ZeroWidth(allTokens[3])
    /\ Start(allTokens[1]) = Start(allTokens[3])
    /\ Start(allTokens[1]) \in DOMAIN tokenStartToIndex
    /\ tokenStartToIndex[Start(allTokens[1])] = 2

\* C26: tokenStartToIndex never maps to the position of a zero-width element:
\* for every entry (s -> i), allTokens[i].start = s and
\* allTokens[i].start < allTokens[i].end; and it has an entry for s exactly
\* when some non-zero-width element starts at s.
C26_MapExcludesZeroWidth ==
    /\ \A s \in DOMAIN tokenStartToIndex :
           /\ tokenStartToIndex[s] \in 0..(Len(allTokens) - 1)
           /\ Start(allTokens[tokenStartToIndex[s] + 1]) = s
           /\ Start(allTokens[tokenStartToIndex[s] + 1]) <
                  End(allTokens[tokenStartToIndex[s] + 1])
    /\ DOMAIN tokenStartToIndex = NonEmptyStarts

\* A store with a zero-width element after a non-zero-width element of the
\* same start, and another zero-width element alone at its offset: the map
\* has the one entry, for the non-zero-width element.
C26_Witness ==
    /\ Len(allTokens) = 3
    /\ ~ZeroWidth(allTokens[1])
    /\ ZeroWidth(allTokens[2])
    /\ ZeroWidth(allTokens[3])
    /\ Start(allTokens[1]) = Start(allTokens[2])
    /\ Start(allTokens[2]) < Start(allTokens[3])
    /\ DOMAIN tokenStartToIndex = {Start(allTokens[1])}
    /\ tokenStartToIndex[Start(allTokens[1])] = 0

----------------------------------------------------------------------------
\* The unlimited result of the multi-element counterpart of the last call,
\* over the same arguments and the same includeComments and filter setting.
Counterpart ==
    CASE called.method = "getLastToken" ->
            getTokens(called.node, Unlimited(called.options))
      [] called.method = "getTokenAfter" ->
            getTokensAfter(called.node, Unlimited(called.options))
      [] called.method = "getTokenBefore" ->
            getTokensBefore(called.node, Unlimited(called.options))
      [] called.method \in {"getFirstTokenBetween", "getLastTokenBetween"} ->
            getTokensBetween(called.left, called.right, Unlimited(called.options))

\* The element at 0-based position k of seq counted from its end, null when
\* there is none.
AtFromEnd(seq, k) == IF k < Len(seq) THEN seq[Len(seq) - k] ELSE null

FromFrontMethods == {"getTokenAfter", "getFirstTokenBetween"}
FromEndMethods == {"getLastToken", "getTokenBefore", "getLastTokenBetween"}

\* C23: with M the unlimited result of the counterpart, getLastToken(n,
\* {skip: k}) is the k-th element from the end of getTokens(n),
\* getTokenAfter(n, {skip: k}) is getTokensAfter(n)[k], getTokenBefore(n,
\* {skip: k}) is the k-th from the end of getTokensBefore(n),
\* getFirstTokenBetween and getLastTokenBetween(l, r, {skip: k}) are the k-th
\* from the front and from the end of getTokensBetween(l, r); each is null
\* exactly when M has fewer than k + 1 elements.
C23_SingleAgreesWithMulti ==
    /\ called.method \in FromFrontMethods =>
           returned = At(Counterpart, SkipOf(called.options))
    /\ called.method \in FromEndMethods =>
           returned = AtFromEnd(Counterpart, SkipOf(called.options))
    /\ called.method \in FromFrontMethods \cup FromEndMethods =>
           (returned = null <=> Len(Counterpart) < SkipOf(called.options) + 1)

\* getLastTokenBetween(l, r, {includeComments: true, skip: 1}) has returned
\* the second of three elements between l and r, a comment.
C23_Witness ==
    /\ called.method = "getLastTokenBetween"
    /\ called.options = ObjectOption(TRUE, FALSE, "any", TRUE, 1)
    /\ Len(Counterpart) = 3
    /\ returned = Counterpart[2]
    /\ isComment(returned)

----------------------------------------------------------------------------
\* Some token or comment of the store covers the offset.
Covered(offset) ==
    \E i \in 1..Len(allTokens) :
        Start(allTokens[i]) <= offset /\ offset < End(allTokens[i])

\* Some offset from the end of left up to the start of right is covered by no
\* token or comment.
GapBetween(left, right) ==
    \E o \in Offsets : End(left) <= o /\ o < Start(right) /\ ~Covered(o)

\* C24 as stated (refuted): for a store whose elements are pairwise
\* non-overlapping and left, right with left.end < right.start,
\* isSpaceBetween(left, right) is true if and only if at least one offset o
\* with left.end <= o < right.start is covered by no token or comment.
C24_SpaceIsUncoveredOffsetAsStated ==
    (/\ called.method = "isSpaceBetween"
     /\ NonOverlapping
     /\ End(called.left) < Start(called.right)) =>
        returned = GapBetween(called.left, called.right)

\* The elements that start from the end of left up to the start of right, in
\* store order.
ElementsBetween(left, right) ==
    Pick(allTokens,
         {i \in 1..Len(allTokens) :
             End(left) <= Start(allTokens[i]) /\ Start(allTokens[i]) < Start(right)},
         1)

\* Walking left, the elements between, then right, some consecutive pair has
\* prev.end < next.start.
WalkHasGap(left, right) ==
    LET walk == <<left>> \o ElementsBetween(left, right) \o <<right>>
    IN  \E k \in 2..Len(walk) : End(walk[k - 1]) < Start(walk[k])

\* C24 amended: for a store whose elements are pairwise non-overlapping and
\* left, right with left.end < right.start, where left.end does not fall
\* strictly inside an element, isSpaceBetween(left, right) is true if and
\* only if at least one offset o with left.end <= o < right.start is covered
\* by no token or comment; equivalently, walking left, the elements between,
\* then right, some consecutive pair has prev.end < next.start.
C24_SpaceIsUncoveredOffset ==
    (/\ called.method = "isSpaceBetween"
     /\ NonOverlapping
     /\ EndsBetweenElements(called.left)
     /\ End(called.left) < Start(called.right)) =>
        /\ returned = GapBetween(called.left, called.right)
        /\ returned = WalkHasGap(called.left, called.right)

\* isSpaceBetween has answered true for a left and a right with two elements
\* between them, the first beginning where left ends, the second ending
\* where right begins, and an uncovered offset between the two.
C24_Witness ==
    /\ called.method = "isSpaceBetween"
    /\ NonOverlapping
    /\ EndsBetweenElements(called.left)
    /\ returned = TRUE
    /\ LET between == ElementsBetween(called.left, called.right)
       IN  /\ Len(between) = 2
           /\ Start(between[1]) = End(called.left)
           /\ End(between[1]) < Start(between[2])
           /\ End(between[2]) = Start(called.right)

====
